---- MODULE Spec2Model ----
(***************************************************************************)
(* Model of analyze.py: the LaserAnalyze state machine that steps through  *)
(* log lines, pairs the last identity seen with a "Laser started" /        *)
(* "Laser shutdown" pair and aggregates the sessions per user.             *)
(*                                                                         *)
(* Representation.                                                         *)
(*  - A log line is a record [match, time, key, message].  match says      *)
(*    whether RE_LINE matches the line; for a matching line time is the    *)
(*    minute field MM of the text "Wed, 17 Oct 2018 07:MM:00 GMT", key the  *)
(*    channel token and message the rest.  For a line RE_LINE does not     *)
(*    match, message holds the whole text.                                 *)
(*  - A datetime is the number of seconds after 2018-10-17 07:00:00, a     *)
(*    timedelta a number of seconds.                                       *)
(*  - A user id is the string of digits RE_USERID captures, kept as the    *)
(*    sequence of its digits (<<4, 2>> is '42'); no capture is empty, so   *)
(*    the empty sequence stands for Python's None.  A user name is a       *)
(*    string; \S+ never captures the empty string, which stands for None.  *)
(*  - Energy levels are in thousandths: 300 is the mean 0.3.               *)
(***************************************************************************)
EXTENDS Integers, Sequences, FiniteSets, TLC

\* Most lines one run reads.
MaxLines == 6
\* Most lines one run reads when the whole input is recorded (SpecTraced).
MaxTraced == 5
\* Timestamps of the control lines are 07:00:00, 07:05:00, ... 07:(5*MaxTick):00.
MaxTick == 1

\* Cumulative durations of the summaries of SpecSummary are 10 s, 20 s, ...
\* 10 * MaxTens s.
MaxTens == 3

\* Python's None for last_userid and for a uid_map key.
None == << >>
\* Python's None for a user name.
NoName == ""
\* Python's None for start_time.
NoTime == -1

VARIABLES
    last_userid,            \* self.last_userid
    start_time,             \* self.start_time
    uid_map,                \* self.uid_map
    cumm_time_per_userid,   \* self.cumm_time_per_userid
    cumm_energy_per_userid, \* self.cumm_energy_per_userid
    num_sessions,           \* self.num_sessions
    total_sessions,         \* self.total_sessions
    pc,                     \* "ingest", "ingested", "done" or "raised"
    raised,                 \* the exception that ended the run, "" if none
    nlines,                 \* the number of lines handed to handle_line
    hist,                   \* the most recent of them: the last one under
                            \* Spec, all of them under SpecTraced
    emitted,                \* the sessions handed to found_session
    queries,                \* the intervals sent to the energy query, each
                            \* with the answer of the store
    sessions,               \* the session lines found_session printed
    found,                  \* the "Found ..." line of ingest_logdir
    summary                 \* the lines print_summary printed

vars == <<last_userid, start_time, uid_map, cumm_time_per_userid,
          cumm_energy_per_userid, num_sessions, total_sessions, pc, raised,
          nlines, hist, emitted, queries, sessions, found, summary>>

----------------------------------------------------------------------------
\* Texts

\* Texts of the input alphabet in which 'laser:mmp' occurs.
TextsWithMmp ==
    {"laser:mmp", "lost link to laser:mmp", "    at laser:mmp (connect)"}

\* Texts of the input alphabet in which 'laser:control' occurs.
TextsWithControl ==
    {"laser:control", "laser:controller", "lost link to laser:control",
     "    at laser:control (relay)"}

\* needle in line, for the two needles handle_line looks for.
Contains(line, needle) ==
    LET texts == IF needle = "laser:mmp" THEN TextsWithMmp ELSE TextsWithControl
    IN  IF line.match
        THEN line.key \in texts \/ line.message \in texts
        ELSE line.message \in texts

\* RE_USERID.search(message): the captured (id, name), or no match.
RE_USERID(message) ==
    CASE message = "Got { userId: 42, username: 'alice' }"
            -> [found |-> TRUE, id |-> <<4, 2>>, name |-> "alice"]
      [] message = "Got { userId: 42, username: 'alice2' }"
            -> [found |-> TRUE, id |-> <<4, 2>>, name |-> "alice2"]
      [] message = "Got { userId: 7, username: 'bob' }"
            -> [found |-> TRUE, id |-> <<7>>, name |-> "bob"]
      [] OTHER -> [found |-> FALSE, id |-> None, name |-> NoName]

\* datetime.strptime(text, '%a, %d %b %Y %H:%M:%S %Z') on the minute field.
strptime(minute) ==
    IF minute \in 0..59
    THEN [ok |-> TRUE, value |-> 60 * minute]
    ELSE [ok |-> FALSE, value |-> NoTime]

----------------------------------------------------------------------------
\* Inputs

\* The minute fields of well-formed timestamps.
Minutes == {5 * k : k \in 0..MaxTick}

Line(match, time, key, message) ==
    [match |-> match, time |-> time, key |-> key, message |-> message]

\* Lines RE_LINE does not match: a blank line and two stack-trace lines.
UnmatchedLines ==
    {Line(FALSE, 0, "", text) :
        text \in {"", "    at laser:mmp (connect)", "    at laser:control (relay)"}}

\* Lines of the control channel.
ControlLines ==
    {Line(TRUE, m, "laser:control", msg) :
        m \in Minutes, msg \in {"Laser started", "Laser shutdown"}}
    \cup {Line(TRUE, 0, "laser:control", "Laser idle"),
          Line(TRUE, 0, "laser:control", "lost link to laser:mmp"),
          Line(TRUE, 61, "laser:control", "Laser started")}

\* Lines of the identity channel.
MmpLines ==
    {Line(TRUE, 0, "laser:mmp", msg) :
        msg \in {"Got { userId: 42, username: 'alice' }",
                 "Got { userId: 42, username: 'alice2' }",
                 "Got { userId: 7, username: 'bob' }",
                 "Got { error: 'no such card' }"}}
    \cup {Line(TRUE, 61, "laser:mmp", "Got { userId: 7, username: 'bob' }")}

\* Lines of another channel.
WebLines ==
    {Line(TRUE, 0, "laser:web", "Laser started"),
     Line(TRUE, 0, "laser:web", "lost link to laser:control"),
     Line(TRUE, 0, "laser:web", "lost link to laser:mmp"),
     Line(TRUE, 0, "laser:controller", "Laser started"),
     Line(TRUE, 0, "laser:controller", "Laser shutdown"),
     Line(TRUE, 61, "laser:web", "New event from laser laserShutdown")}

Lines == UnmatchedLines \cup ControlLines \cup MmpLines \cup WebLines

\* The well-formed lines of the identity channel and the start and stop lines
\* of the control channel.
EventLines ==
    {l \in MmpLines \cup ControlLines :
        /\ l.time \in Minutes
        /\ l.message \notin {"Laser idle", "lost link to laser:mmp"}}

\* What the time-series store answers to one query: a mean (in thousandths),
\* no point at all, or a failure to reach the endpoint.
InfluxResponses ==
    {[kind |-> "mean", mean |-> 300], [kind |-> "nodata", mean |-> 0],
     [kind |-> "unreachable", mean |-> 0]}

----------------------------------------------------------------------------
\* Parsing

Raise(exc) == [ok |-> FALSE, exc |-> exc]

\* parse_line: r.groupdict() on a failed match raises AttributeError, strptime
\* raises ValueError, otherwise the event (time, key, message).
parse_line(line) ==
    IF ~line.match
    THEN Raise("AttributeError")
    ELSE LET t == strptime(line.time)
         IN  IF ~t.ok
             THEN Raise("ValueError")
             ELSE [ok |-> TRUE, exc |-> "",
                   evt |-> [time |-> t.value, key |-> line.key,
                            message |-> line.message]]

\* handle_mmp: the (id, name) of an identity line, (None, None) when the
\* payload carries none, ValueError on another channel.
handle_mmp(line) ==
    LET p == parse_line(line)
    IN  IF ~p.ok
        THEN p
        ELSE IF p.evt.key # "laser:mmp"
             THEN Raise("ValueError")
             ELSE LET r == RE_USERID(p.evt.message)
                  IN  IF r.found
                      THEN [ok |-> TRUE, exc |-> "", id |-> r.id, name |-> r.name]
                      ELSE [ok |-> TRUE, exc |-> "", id |-> None, name |-> NoName]

----------------------------------------------------------------------------
\* Energy query

\* 60% is full scale (thousandths).
FullScale == 600

\* get_avg_energy if the mean were returned as it is, not divided by 0.6.
get_avg_energy_not_normalised(resp) ==
    IF resp.kind = "unreachable"
    THEN Raise("ConnectionError")
    ELSE [ok |-> TRUE, exc |-> "",
          value |-> IF resp.kind = "nodata" THEN 0 ELSE resp.mean]

\* get_avg_energy if StopIteration were not caught.
get_avg_energy_nodata_raises(resp) ==
    IF resp.kind # "mean"
    THEN Raise(IF resp.kind = "nodata" THEN "StopIteration" ELSE "ConnectionError")
    ELSE [ok |-> TRUE, exc |-> "", value |-> (resp.mean * 1000) \div FullScale]

\* get_avg_energy: the mean of the answer, 0.0 when there is no point,
\* divided by 0.6; a failed query raises.
get_avg_energy(resp) ==
    IF resp.kind = "unreachable"
    THEN Raise("ConnectionError")
    ELSE LET mean == IF resp.kind = "nodata" THEN 0 ELSE resp.mean
         IN  [ok |-> TRUE, exc |-> "", value |-> (mean * 1000) \div FullScale]

----------------------------------------------------------------------------
\* LaserAnalyze

\* d[k] = v on a dict.
Put(d, k, v) == [x \in DOMAIN d \cup {k} |-> IF x = k THEN v ELSE d[x]]

\* d[k] on a defaultdict(timedelta) or defaultdict(int).
Get(d, k) == IF k \in DOMAIN d THEN d[k] ELSE 0

\* The analyzer object as one value.
Self ==
    [last_userid |-> last_userid,
     start_time |-> start_time,
     uid_map |-> uid_map,
     cumm_time_per_userid |-> cumm_time_per_userid,
     cumm_energy_per_userid |-> cumm_energy_per_userid,
     num_sessions |-> num_sessions,
     total_sessions |-> total_sessions]

\* What a step did besides changing the analyzer: the sessions it handed to
\* found_session, the intervals it queried and the session lines it printed.
Nothing == [emitted |-> << >>, asked |-> << >>, printed |-> << >>]

\* The result of a step that returned.
Return(self, did) == [ok |-> TRUE, exc |-> "", self |-> self, did |-> did]

\* The result of a step that raised: the analyzer is as it was.
Raised(exc, self, did) == [ok |-> FALSE, exc |-> exc, self |-> self, did |-> did]

\* TruthyId if the shutdown did not test the id.
TruthyId_untested(v) == TRUE

\* Truth value of self.last_userid: None is false, a string of digits true.
TruthyId(v) == v # None

\* Truth value of self.start_time: None is false, a datetime true.
TruthyTime(v) == v # NoTime

\* timedelta * float, in seconds, for a level in thousandths.
Scale(duration, level) == (duration * level) \div 1000

\* found_session if the totals were assigned instead of added to.
found_session_overwrites(self, user_id, st, et, resp) ==
    LET e == get_avg_energy(resp)
        call == [user_id |-> user_id, start_time |-> st, end_time |-> et]
        asked == [start |-> st, end |-> et, answer |-> resp]
    IN  IF ~e.ok
        THEN Raised(e.exc, self,
                    [emitted |-> <<call>>, asked |-> <<asked>>, printed |-> << >>])
        ELSE Return(
               [self EXCEPT
                  !.total_sessions = @ + 1,
                  !.cumm_time_per_userid = Put(@, user_id, et - st),
                  !.cumm_energy_per_userid =
                      Put(@, user_id, Scale(et - st, e.value)),
                  !.num_sessions = Put(@, user_id, Get(@, user_id) + 1)],
               [emitted |-> <<call>>, asked |-> <<asked>>,
                printed |-> <<[user_id |-> user_id, start_time |-> st,
                               duration |-> et - st, avg_energy |-> e.value]>>])

\* found_session if the per-user session count were not kept.
found_session_forgets_count(self, user_id, st, et, resp) ==
    LET e == get_avg_energy(resp)
        call == [user_id |-> user_id, start_time |-> st, end_time |-> et]
        asked == [start |-> st, end |-> et, answer |-> resp]
    IN  IF ~e.ok
        THEN Raised(e.exc, self,
                    [emitted |-> <<call>>, asked |-> <<asked>>, printed |-> << >>])
        ELSE Return(
               [self EXCEPT
                  !.total_sessions = @ + 1,
                  !.cumm_time_per_userid =
                      Put(@, user_id, Get(@, user_id) + (et - st)),
                  !.cumm_energy_per_userid =
                      Put(@, user_id, Get(@, user_id) + Scale(et - st, e.value))],
               [emitted |-> <<call>>, asked |-> <<asked>>,
                printed |-> <<[user_id |-> user_id, start_time |-> st,
                               duration |-> et - st, avg_energy |-> e.value]>>])

\* found_session if the duration and the count were added before the query.
found_session_aggregates_first(self, user_id, st, et, resp) ==
    LET e == get_avg_energy(resp)
        call == [user_id |-> user_id, start_time |-> st, end_time |-> et]
        asked == [start |-> st, end |-> et, answer |-> resp]
        counted == [self EXCEPT
                      !.total_sessions = @ + 1,
                      !.cumm_time_per_userid =
                          Put(@, user_id, Get(@, user_id) + (et - st)),
                      !.num_sessions = Put(@, user_id, Get(@, user_id) + 1)]
    IN  IF ~e.ok
        THEN Raised(e.exc, counted,
                    [emitted |-> <<call>>, asked |-> <<asked>>, printed |-> << >>])
        ELSE Return(
               [counted EXCEPT
                  !.cumm_energy_per_userid =
                      Put(@, user_id, Get(@, user_id) + Scale(et - st, e.value))],
               [emitted |-> <<call>>, asked |-> <<asked>>,
                printed |-> <<[user_id |-> user_id, start_time |-> st,
                               duration |-> et - st, avg_energy |-> e.value]>>])

\* found_session: query the energy first, then print and aggregate.
found_session(self, user_id, st, et, resp) ==
    LET e == get_avg_energy(resp)
        call == [user_id |-> user_id, start_time |-> st, end_time |-> et]
        asked == [start |-> st, end |-> et, answer |-> resp]
    IN  IF ~e.ok
        THEN Raised(e.exc, self,
                    [emitted |-> <<call>>, asked |-> <<asked>>, printed |-> << >>])
        ELSE Return(
               [self EXCEPT
                  !.total_sessions = @ + 1,
                  !.cumm_time_per_userid =
                      Put(@, user_id, Get(@, user_id) + (et - st)),
                  !.cumm_energy_per_userid =
                      Put(@, user_id, Get(@, user_id) + Scale(et - st, e.value)),
                  !.num_sessions = Put(@, user_id, Get(@, user_id) + 1)],
               [emitted |-> <<call>>, asked |-> <<asked>>,
                printed |-> <<[user_id |-> user_id, start_time |-> st,
                               duration |-> et - st, avg_energy |-> e.value]>>])

\* mmp_block if the first name seen for an id were kept.
mmp_block_first_name_wins(self, line) ==
    IF Contains(line, "laser:mmp")
    THEN LET r == handle_mmp(line)
         IN  IF ~r.ok
             THEN Raised(r.exc, self, Nothing)
             ELSE Return([self EXCEPT
                            !.last_userid = r.id,
                            !.uid_map = IF r.id \in DOMAIN @
                                        THEN @
                                        ELSE Put(@, r.id, r.name)],
                         Nothing)
    ELSE Return(self, Nothing)

\* The 'laser:mmp' block of handle_line.
mmp_block(self, line) ==
    IF Contains(line, "laser:mmp")
    THEN LET r == handle_mmp(line)
         IN  IF ~r.ok
             THEN Raised(r.exc, self, Nothing)
             ELSE Return([self EXCEPT !.last_userid = r.id,
                                      !.uid_map = Put(@, r.id, r.name)],
                         Nothing)
    ELSE Return(self, Nothing)

\* on_started if a start were taken only once an identity is pending.
on_started_needs_identity(self, evt) ==
    IF TruthyId(self.last_userid)
    THEN Return([self EXCEPT !.start_time = evt.time], Nothing)
    ELSE Return(self, Nothing)

\* on_started if the first start of a pending session won.
on_started_first_wins(self, evt) ==
    IF self.start_time = NoTime
    THEN Return([self EXCEPT !.start_time = evt.time], Nothing)
    ELSE Return(self, Nothing)

\* evt[2] == 'Laser started'
on_started(self, evt) ==
    Return([self EXCEPT !.start_time = evt.time], Nothing)

\* on_shutdown if only last_userid were cleared after the session.
on_shutdown_keeps_start(self, evt, resp) ==
    IF TruthyId(self.last_userid) /\ TruthyTime(self.start_time)
    THEN LET f == found_session(self, self.last_userid, self.start_time,
                                evt.time, resp)
         IN  IF ~f.ok
             THEN f
             ELSE Return([f.self EXCEPT !.last_userid = None], f.did)
    ELSE Return(self, Nothing)

\* on_shutdown if the two slots were kept after the session was recorded.
on_shutdown_keeps_slots(self, evt, resp) ==
    IF TruthyId(self.last_userid) /\ TruthyTime(self.start_time)
    THEN found_session(self, self.last_userid, self.start_time, evt.time, resp)
    ELSE Return(self, Nothing)

\* on_shutdown if a discarded shutdown cleared the two slots too.
on_shutdown_always_clears(self, evt, resp) ==
    IF TruthyId(self.last_userid) /\ TruthyTime(self.start_time)
    THEN LET f == found_session(self, self.last_userid, self.start_time,
                                evt.time, resp)
         IN  IF ~f.ok
             THEN f
             ELSE Return([f.self EXCEPT !.last_userid = None,
                                        !.start_time = NoTime],
                         f.did)
    ELSE Return([self EXCEPT !.last_userid = None, !.start_time = NoTime],
                Nothing)

\* evt[2] == 'Laser shutdown'
on_shutdown(self, evt, resp) ==
    IF TruthyId(self.last_userid) /\ TruthyTime(self.start_time)
    THEN LET f == found_session(self, self.last_userid, self.start_time,
                                evt.time, resp)
         IN  IF ~f.ok
             THEN f
             ELSE Return([f.self EXCEPT !.last_userid = None,
                                        !.start_time = NoTime],
                         f.did)
    ELSE Return(self, Nothing)

\* The 'laser:control' block of handle_line.
control_block(self, line, resp) ==
    IF Contains(line, "laser:control")
    THEN LET p == parse_line(line)
         IN  IF ~p.ok
             THEN Raised(p.exc, self, Nothing)
             ELSE IF p.evt.message = "Laser started"
                  THEN on_started(self, p.evt)
                  ELSE IF p.evt.message = "Laser shutdown"
                       THEN on_shutdown(self, p.evt, resp)
                       ELSE Return(self, Nothing)
    ELSE Return(self, Nothing)

\* handle_line: the identity block, then the control block.
handle_line(self, line, resp) ==
    LET a == mmp_block(self, line)
    IN  IF ~a.ok THEN a ELSE control_block(a.self, line, resp)

----------------------------------------------------------------------------
\* Summary

\* a < b if user ids were compared as numbers (no leading zeros): the shorter
\* is the smaller.
StrLess_as_numbers(a, b) ==
    \/ Len(a) < Len(b)
    \/ /\ Len(a) = Len(b)
       /\ \E i \in 1..Len(b) :
             /\ \A j \in 1..(i - 1) : a[j] = b[j]
             /\ a[i] < b[i]

\* a < b for two Python strings of digits.
StrLess(a, b) ==
    \E i \in 1..(Len(b)) :
        /\ \A j \in 1..(i - 1) : j <= Len(a) /\ a[j] = b[j]
        /\ \/ i = Len(a) + 1
           \/ i <= Len(a) /\ a[i] < b[i]

\* (d1, u1) < (d2, u2) for two (duration, userid) tuples.
TupleLess(x, y) ==
    x.dur < y.dur \/ (x.dur = y.dur /\ StrLess(x.user_id, y.user_id))

\* sorted(users, reverse=True)
RECURSIVE SortedReverse(_)
SortedReverse(users) ==
    IF users = {}
    THEN << >>
    ELSE LET top == CHOOSE x \in users : \A y \in users : ~TupleLess(x, y)
         IN  <<top>> \o SortedReverse(users \ {top})

\* The lines print_summary prints.
print_summary(self) ==
    LET users == {[dur |-> self.cumm_time_per_userid[u], user_id |-> u] :
                    u \in DOMAIN self.cumm_time_per_userid}
        order == SortedReverse(users)
    IN  [i \in 1..Len(order) |->
            [dur |-> order[i].dur,
             energy |-> Get(self.cumm_energy_per_userid, order[i].user_id),
             sessions |-> Get(self.num_sessions, order[i].user_id),
             user_id |-> order[i].user_id,
             name |-> self.uid_map[order[i].user_id]]]

----------------------------------------------------------------------------
\* The run

Init ==
    /\ last_userid = None
    /\ start_time = NoTime
    /\ uid_map = << >>
    /\ cumm_time_per_userid = << >>
    /\ cumm_energy_per_userid = << >>
    /\ num_sessions = << >>
    /\ total_sessions = 0
    /\ pc = "ingest"
    /\ raised = ""
    /\ nlines = 0
    /\ hist = << >>
    /\ emitted = << >>
    /\ queries = << >>
    /\ sessions = << >>
    /\ found = << >>
    /\ summary = << >>

\* The answers the store may give while `line` is handled: any of them when
\* the line makes the analyzer ask, and none to choose from when it does not.
Answers(self, line) ==
    LET any == CHOOSE resp \in InfluxResponses : TRUE
    IN  IF handle_line(self, line, any).did.asked = << >>
        THEN {any}
        ELSE InfluxResponses

\* The last `window` elements of h.
Recent(h, window) ==
    IF Len(h) <= window THEN h ELSE SubSeq(h, Len(h) - window + 1, Len(h))

\* One iteration of the loop of ingest_logdir: handle the next line, which is
\* one of `alphabet`.
Read(alphabet, limit, window) ==
    /\ pc = "ingest"
    /\ nlines < limit
    /\ \E line \in alphabet :
       \E resp \in Answers(Self, line) :
         LET r == handle_line(Self, line, resp)
         IN  /\ nlines' = nlines + 1
             /\ hist' = Recent(Append(hist, line), window)
             /\ last_userid' = r.self.last_userid
             /\ start_time' = r.self.start_time
             /\ uid_map' = r.self.uid_map
             /\ cumm_time_per_userid' = r.self.cumm_time_per_userid
             /\ cumm_energy_per_userid' = r.self.cumm_energy_per_userid
             /\ num_sessions' = r.self.num_sessions
             /\ total_sessions' = r.self.total_sessions
             /\ emitted' = emitted \o r.did.emitted
             /\ queries' = queries \o r.did.asked
             /\ sessions' = sessions \o r.did.printed
             /\ pc' = IF r.ok THEN "ingest" ELSE "raised"
             /\ raised' = r.exc
             /\ UNCHANGED <<found, summary>>

\* The next line is any line; only it is remembered.
ReadLine == Read(Lines, MaxLines, 1)

\* The next line is a well-formed event line; the whole input is remembered.
ReadEvent == Read(EventLines, MaxTraced, MaxTraced)

\* FileErrors: what reading the directory and its files can raise.  os.listdir
\* and open raise an OSError (FileNotFoundError, NotADirectoryError, ...); the
\* iteration of a file whose bytes are not valid text raises
\* UnicodeDecodeError, a ValueError.
FileErrors == {"OSError", "ValueError"}

\* os.listdir, open or the iteration of the file fails: the error leaves
\* ingest_logdir.
ReadFails ==
    /\ pc = "ingest"
    /\ pc' = "raised"
    /\ raised' \in FileErrors
    /\ UNCHANGED <<last_userid, start_time, uid_map, cumm_time_per_userid,
                   cumm_energy_per_userid, num_sessions, total_sessions,
                   nlines, hist, emitted, queries, sessions, found, summary>>

\* The loops of ingest_logdir end: it prints the "Found ..." line and returns.
EndOfInput ==
    /\ pc = "ingest"
    /\ found' = <<[sessions |-> total_sessions,
                   users |-> Cardinality(DOMAIN num_sessions)]>>
    /\ pc' = "ingested"
    /\ UNCHANGED <<last_userid, start_time, uid_map, cumm_time_per_userid,
                   cumm_energy_per_userid, num_sessions, total_sessions,
                   raised, nlines, hist, emitted, queries, sessions, summary>>

\* PrintSummary if the summary were printed after a failed ingestion too.
PrintSummaryEvenAfterError ==
    /\ pc \in {"ingested", "raised"}
    /\ summary' = print_summary(Self)
    /\ pc' = "done"
    /\ UNCHANGED <<last_userid, start_time, uid_map, cumm_time_per_userid,
                   cumm_energy_per_userid, num_sessions, total_sessions,
                   raised, nlines, hist, emitted, queries, sessions, found>>

\* laz.print_summary(), the statement after laz.ingest_logdir('logs').
PrintSummary ==
    /\ pc = "ingested"
    /\ summary' = print_summary(Self)
    /\ pc' = "done"
    /\ UNCHANGED <<last_userid, start_time, uid_map, cumm_time_per_userid,
                   cumm_energy_per_userid, num_sessions, total_sessions,
                   raised, nlines, hist, emitted, queries, sessions, found>>

Next == ReadLine \/ ReadFails \/ EndOfInput \/ PrintSummary

Spec == Init /\ [][Next]_vars

\* The user ids and names of the summaries of SpecSummary: '7', '42', '100'.
SummaryNames ==
    (<<7>> :> "bob") @@ (<<4, 2>> :> "alice") @@ (<<1, 0, 0>> :> "carol")

\* The analyzer after an ingestion (not modelled here) that recorded one
\* session without energy data for each user of some set, of any of the
\* durations; the "Found" line is printed.
InitSummary ==
    \E users \in SUBSET (DOMAIN SummaryNames) :
    \E dur \in [users -> {10 * k : k \in 1..MaxTens}] :
        /\ last_userid = None
        /\ start_time = NoTime
        /\ uid_map = [u \in users |-> SummaryNames[u]]
        /\ cumm_time_per_userid = dur
        /\ cumm_energy_per_userid = [u \in users |-> 0]
        /\ num_sessions = [u \in users |-> 1]
        /\ total_sessions = Cardinality(users)
        /\ pc = "ingested"
        /\ raised = ""
        /\ nlines = 0
        /\ hist = << >>
        /\ emitted = << >>
        /\ queries = << >>
        /\ sessions = << >>
        /\ found = <<[sessions |-> Cardinality(users),
                      users |-> Cardinality(users)]>>
        /\ summary = << >>

\* print_summary applied to each of these analyzers.
SpecSummary == InitSummary /\ [][PrintSummary]_vars

\* The loop of ingest_logdir alone, over a recorded input of event lines.
NextTraced == ReadEvent

SpecTraced == Init /\ [][NextTraced]_vars

----------------------------------------------------------------------------
\* Events, as the specification of the state machine names them

\* The line parses to an event (timestamp, channel, message).
IsEvent(l) == l.match /\ strptime(l.time).ok

\* The timestamp of an event.
TimeOf(l) == strptime(l.time).value

IsIdentity(l) == IsEvent(l) /\ l.key = "laser:mmp"

IsStarted(l) ==
    IsEvent(l) /\ l.key = "laser:control" /\ l.message = "Laser started"

IsShutdown(l) ==
    IsEvent(l) /\ l.key = "laser:control" /\ l.message = "Laser shutdown"

\* The step hands one more line to handle_line; LineRead is that line.
Reads == nlines' = nlines + 1
LineRead == hist'[Len(hist')]

\* The analyzer and what it has emitted, queried and printed.
state == <<last_userid, start_time, uid_map, cumm_time_per_userid,
           cumm_energy_per_userid, num_sessions, total_sessions,
           emitted, queries, sessions>>

\* The timestamp of the last "Laser started" event of h, NoTime without one.
LastStarted(h) ==
    IF \E i \in 1..Len(h) : IsStarted(h[i])
    THEN LET last == CHOOSE i \in 1..Len(h) :
                        /\ IsStarted(h[i])
                        /\ \A j \in (i + 1)..Len(h) : ~IsStarted(h[j])
         IN  TimeOf(h[last])
    ELSE NoTime

----------------------------------------------------------------------------
----------------------------------------------------------------------------
\* C2 (Spec): a "Laser shutdown" event read while last_userid or start_time
\* is unset is a no-op: the run goes on, no session is emitted, no energy
\* query is made, and the two slots, the identity map and the aggregates stay
\* as they were.
C2_OrphanShutdownIsNoOp ==
    [][( /\ Reads
         /\ IsShutdown(LineRead)
         /\ (last_userid = None \/ start_time = NoTime) )
       => /\ pc' = "ingest"
          /\ UNCHANGED state
      ]_vars

\* A shutdown was discarded for want of an identity while a start was
\* pending, and the start is still pending.
C2_Witness ==
    /\ hist # << >>
    /\ IsShutdown(hist[Len(hist)])
    /\ pc = "ingest"
    /\ last_userid = None
    /\ start_time # NoTime
    /\ uid_map # << >>
    /\ emitted = << >>

----------------------------------------------------------------------------
\* C3 as stated (SpecTraced): after "Laser started", "Laser shutdown" from the
\* initial state no session is emitted and both slots are unset.
C3_Original ==
    ( /\ Len(hist) = 2
      /\ IsStarted(hist[1])
      /\ IsShutdown(hist[2]) )
    => /\ emitted = << >>
       /\ last_userid = None
       /\ start_time = NoTime

\* C3 amended (SpecTraced): after "Laser started", "Laser shutdown" from the
\* initial state no session is emitted and nothing is aggregated, last_userid
\* is unset and start_time still holds that start's timestamp; when an
\* identity event with an id, a "Laser started" and a "Laser shutdown" follow,
\* exactly one session is emitted, for that id and from that later start.
C3_OrphanPairThenValidPair ==
    /\ ( /\ Len(hist) = 2
         /\ IsStarted(hist[1])
         /\ IsShutdown(hist[2]) )
       => /\ emitted = << >>
          /\ cumm_time_per_userid = << >>
          /\ last_userid = None
          /\ start_time = TimeOf(hist[1])
    /\ ( /\ Len(hist) = 5
         /\ IsStarted(hist[1])
         /\ IsShutdown(hist[2])
         /\ IsIdentity(hist[3]) /\ RE_USERID(hist[3].message).found
         /\ IsStarted(hist[4])
         /\ IsShutdown(hist[5]) )
       => emitted = <<[user_id |-> RE_USERID(hist[3].message).id,
                       start_time |-> TimeOf(hist[4]),
                       end_time |-> TimeOf(hist[5])]>>

\* The five lines were read, the two starts differ, and the one session
\* starts at the later one.
C3_Witness ==
    /\ Len(hist) = 5
    /\ IsStarted(hist[1])
    /\ IsShutdown(hist[2])
    /\ IsIdentity(hist[3]) /\ RE_USERID(hist[3].message).found
    /\ IsStarted(hist[4])
    /\ IsShutdown(hist[5])
    /\ TimeOf(hist[1]) # TimeOf(hist[4])
    /\ Len(emitted) = 1
    /\ emitted[1].start_time = TimeOf(hist[4])

\* The identity events of h that carry the id.
IdentitiesOf(h, id) ==
    {i \in 1..Len(h) :
        /\ IsIdentity(h[i])
        /\ RE_USERID(h[i].message).found
        /\ RE_USERID(h[i].message).id = id}

\* The ids the identity payloads of the input alphabet carry.
UserIds == {RE_USERID(l.message).id : l \in {x \in MmpLines : RE_USERID(x.message).found}}

----------------------------------------------------------------------------
\* C4 as stated (Spec): an identity event whose payload yields no id does not
\* end the run and leaves last_userid and the identity map as they were.
C4_NullIdentityChangesNothing ==
    [][( /\ Reads
         /\ IsIdentity(LineRead)
         /\ ~RE_USERID(LineRead.message).found )
       => /\ pc' = "ingest"
          /\ last_userid' = last_userid
          /\ uid_map' = uid_map
      ]_vars

----------------------------------------------------------------------------
\* C5 (SpecTraced): the identity map is last-write-wins and independent of
\* sessions: after any input, an id is in the map exactly when an identity
\* event carried it, and its name is the one the last such event carried.
C5_LastNameWins ==
    \A id \in UserIds :
        LET seen == IdentitiesOf(hist, id)
        IN  IF seen = {}
            THEN id \notin DOMAIN uid_map
            ELSE LET last == CHOOSE i \in seen : \A j \in seen : j <= i
                 IN  /\ id \in DOMAIN uid_map
                     /\ uid_map[id] = RE_USERID(hist[last].message).name

\* Id 42 was seen as 'alice' and later as 'alice2', no session was ever
\* emitted, and 42 resolves to 'alice2'.
C5_Witness ==
    /\ \E i, j \in 1..Len(hist) :
          /\ i < j
          /\ IsIdentity(hist[i]) /\ RE_USERID(hist[i].message).name = "alice"
          /\ IsIdentity(hist[j]) /\ RE_USERID(hist[j].message).name = "alice2"
          /\ \A k \in (j + 1)..Len(hist) : k \notin IdentitiesOf(hist, <<4, 2>>)
    /\ emitted = << >>
    /\ start_time = NoTime
    /\ uid_map[<<4, 2>>] = "alice2"

----------------------------------------------------------------------------
\* C6 (Spec): recording a session with start_time < end_time adds exactly
\* end_time - start_time to the user's cumulative duration and exactly 1 to
\* the user's session count, counting from zero on the user's first session,
\* and leaves every other user's duration, energy and count as they were.
C6_RecordAddsDurationAndCount ==
    [][( /\ Reads
         /\ Len(emitted') = Len(emitted) + 1
         /\ pc' = "ingest" )
       => LET e == emitted'[Len(emitted')]
              u == e.user_id
              d == e.end_time - e.start_time
          IN  d > 0 =>
                /\ u \in DOMAIN cumm_time_per_userid' /\ u \in DOMAIN num_sessions'
                /\ cumm_time_per_userid'[u] = Get(cumm_time_per_userid, u) + d
                /\ num_sessions'[u] = Get(num_sessions, u) + 1
                /\ \A v \in UserIds \ {u} :
                      /\ (v \in DOMAIN cumm_time_per_userid')
                            = (v \in DOMAIN cumm_time_per_userid)
                      /\ (v \in DOMAIN cumm_energy_per_userid')
                            = (v \in DOMAIN cumm_energy_per_userid)
                      /\ (v \in DOMAIN num_sessions') = (v \in DOMAIN num_sessions)
                      /\ Get(cumm_time_per_userid', v) = Get(cumm_time_per_userid, v)
                      /\ Get(cumm_energy_per_userid', v)
                            = Get(cumm_energy_per_userid, v)
                      /\ Get(num_sessions', v) = Get(num_sessions, v)
      ]_vars

\* A user's second session of positive duration was recorded on top of the
\* first.
C6_Witness ==
    \E u \in DOMAIN num_sessions :
        /\ num_sessions[u] = 2
        /\ cumm_time_per_userid[u] = 600
        /\ \A i \in 1..Len(sessions) : sessions[i].duration > 0

----------------------------------------------------------------------------
\* C7 as stated (Spec): no session of negative duration is ever aggregated.
C7_NoNegativeDurationAggregated ==
    /\ \A i \in 1..Len(sessions) : sessions[i].duration >= 0
    /\ \A u \in DOMAIN cumm_time_per_userid : cumm_time_per_userid[u] >= 0

----------------------------------------------------------------------------
\* C8 as stated (Spec): a line that does not match the line shape never
\* fails the scan and never changes the state.
C8_UnmatchedLineIsSkipped ==
    [][(Reads /\ ~LineRead.match)
       => /\ pc' = "ingest"
          /\ UNCHANGED state
      ]_vars

----------------------------------------------------------------------------
\* C9 as stated (Spec): every line that matches the line shape and whose
\* timestamp fails date parsing ends the run with the parse error, whatever
\* its channel; none is skipped.
C9_BadTimestampIsFatal ==
    [][( /\ Reads
         /\ LineRead.match
         /\ ~strptime(LineRead.time).ok )
       => /\ pc' = "raised"
          /\ raised' = "ValueError"
      ]_vars

----------------------------------------------------------------------------
\* C10 (Spec): the per-user summary is printed only by a run whose ingestion
\* returned; a run in which parsing, reading or the energy query raised ends
\* there and prints neither the "Found" line nor the summary.
C10_NoSummaryAfterFatalError ==
    /\ pc = "done" => (raised = "" /\ found # << >>)
    /\ summary # << >> => pc = "done"
    /\ raised # "" => (pc = "raised" /\ found = << >> /\ summary = << >>)

\* The energy query failed after a session had been aggregated: the partial
\* totals exist and nothing was printed.
C10_Witness ==
    /\ pc = "raised"
    /\ raised = "ConnectionError"
    /\ total_sessions = 1
    /\ cumm_time_per_userid # << >>
    /\ found = << >>
    /\ summary = << >>

----------------------------------------------------------------------------
\* C11 (Spec): when the store has no point for a session's interval the
\* session is still recorded: no error is raised, its average energy is zero,
\* the user's cumulative duration and session count grow as for any session,
\* and the user's energy-weighted total keeps its value.
C11_NoDataCountsTimeNotEnergy ==
    [][( /\ Reads
         /\ Len(queries') = Len(queries) + 1
         /\ queries'[Len(queries')].answer.kind = "nodata" )
       => LET e == emitted'[Len(emitted')]
              u == e.user_id
              d == e.end_time - e.start_time
          IN  /\ pc' = "ingest" /\ raised' = ""
              /\ sessions' = Append(sessions,
                                    [user_id |-> u, start_time |-> e.start_time,
                                     duration |-> d, avg_energy |-> 0])
              /\ total_sessions' = total_sessions + 1
              /\ cumm_time_per_userid'[u] = Get(cumm_time_per_userid, u) + d
              /\ num_sessions'[u] = Get(num_sessions, u) + 1
              /\ cumm_energy_per_userid'[u] = Get(cumm_energy_per_userid, u)
      ]_vars

\* A user's second session found no data after a first one with energy: the
\* count and the duration grew, the energy-weighted total is that of the first.
C11_Witness ==
    /\ Len(queries) = 2
    /\ queries[1].answer.kind = "mean"
    /\ queries[2].answer.kind = "nodata"
    /\ pc = "ingest"
    /\ \E u \in DOMAIN num_sessions :
          /\ num_sessions[u] = 2
          /\ cumm_time_per_userid[u] = 600
          /\ cumm_energy_per_userid[u] = 150

----------------------------------------------------------------------------
\* The order of the user ids of SpecSummary as Python strings:
\* '100' < '42' < '7'.
IdRank == (<<1, 0, 0>> :> 1) @@ (<<4, 2>> :> 2) @@ (<<7>> :> 3)

\* C12 (SpecSummary): the summary has one line for each aggregated user and
\* no other, with that user's totals and name, and the lines are in
\* descending order of cumulative duration, lines of equal duration in
\* descending order of user id (the ids compared as Python compares the
\* strings); durations 10 s, 30 s, 20 s are printed as 30 s, 20 s, 10 s.
C12_SummarySortedDescending ==
    pc = "done" =>
      /\ Len(summary) = Cardinality(DOMAIN cumm_time_per_userid)
      /\ {summary[i].user_id : i \in 1..Len(summary)} = DOMAIN cumm_time_per_userid
      /\ \A i \in 1..Len(summary) :
            /\ summary[i].dur = cumm_time_per_userid[summary[i].user_id]
            /\ summary[i].energy = cumm_energy_per_userid[summary[i].user_id]
            /\ summary[i].sessions = num_sessions[summary[i].user_id]
            /\ summary[i].name = uid_map[summary[i].user_id]
      /\ \A i, j \in 1..Len(summary) :
            i < j =>
              \/ summary[i].dur > summary[j].dur
              \/ /\ summary[i].dur = summary[j].dur
                 /\ IdRank[summary[i].user_id] > IdRank[summary[j].user_id]
      /\ ( {cumm_time_per_userid[u] : u \in DOMAIN cumm_time_per_userid}
             = {10, 20, 30}
           /\ Cardinality(DOMAIN cumm_time_per_userid) = 3 )
         => [i \in 1..3 |-> summary[i].dur] = <<30, 20, 10>>

\* Users '7' and '42' with 10 s each and user '100' with 30 s were printed:
\* '100' first, then '7' before '42'.
C12_Witness ==
    /\ pc = "done"
    /\ Len(summary) = 3
    /\ [i \in 1..3 |-> summary[i].dur] = <<30, 10, 10>>
    /\ [i \in 1..3 |-> summary[i].user_id] = <<(<<1, 0, 0>>), <<7>>, <<4, 2>>>>

----------------------------------------------------------------------------
\* C13 (Spec): no session is emitted or aggregated under a null user id: None
\* is a key of none of the three aggregates, whatever identity lines were read.
C13_NoSessionForNullId ==
    /\ None \notin DOMAIN cumm_time_per_userid
    /\ None \notin DOMAIN cumm_energy_per_userid
    /\ None \notin DOMAIN num_sessions
    /\ \A i \in 1..Len(emitted) : emitted[i].user_id # None
    /\ \A i \in 1..Len(sessions) : sessions[i].user_id # None

\* An identity line without an id was read (the map has the key None), a
\* start is pending and the shutdown just read was discarded.
C13_Witness ==
    /\ None \in DOMAIN uid_map
    /\ last_userid = None
    /\ start_time # NoTime
    /\ hist # << >>
    /\ IsShutdown(hist[Len(hist)])
    /\ pc = "ingest"
    /\ cumm_time_per_userid = << >>

----------------------------------------------------------------------------
\* C14 (SpecTraced): from the initial state, the identity event of user 7
\* ('bob'), "Laser started" at t and "Laser shutdown" at t + 300 s, the store
\* answering the mean 0.3, give exactly one session: user 7, 300 s, normalized
\* energy 0.5, energy-weighted duration 150 s, session count 1.
C14_EndToEnd ==
    ( /\ Len(hist) = 3
      /\ IsIdentity(hist[1])
      /\ hist[1].message = "Got { userId: 7, username: 'bob' }"
      /\ IsStarted(hist[2])
      /\ IsShutdown(hist[3])
      /\ TimeOf(hist[3]) = TimeOf(hist[2]) + 300
      /\ Len(queries) = 1
      /\ queries[1].answer = [kind |-> "mean", mean |-> 300] )
    => /\ pc = "ingest"
       /\ emitted = <<[user_id |-> <<7>>, start_time |-> TimeOf(hist[2]),
                       end_time |-> TimeOf(hist[2]) + 300]>>
       /\ queries[1].start = TimeOf(hist[2])
       /\ queries[1].end = TimeOf(hist[2]) + 300
       /\ sessions = <<[user_id |-> <<7>>, start_time |-> TimeOf(hist[2]),
                        duration |-> 300, avg_energy |-> 500]>>
       /\ total_sessions = 1
       /\ cumm_time_per_userid = (<<7>> :> 300)
       /\ cumm_energy_per_userid = (<<7>> :> 150)
       /\ num_sessions = (<<7>> :> 1)
       /\ uid_map = (<<7>> :> "bob")

\* The three lines were read and the store answered 0.3.
C14_Witness ==
    /\ Len(hist) = 3
    /\ hist[1].message = "Got { userId: 7, username: 'bob' }"
    /\ IsStarted(hist[2])
    /\ IsShutdown(hist[3])
    /\ TimeOf(hist[3]) = TimeOf(hist[2]) + 300
    /\ Len(queries) = 1
    /\ queries[1].answer = [kind |-> "mean", mean |-> 300]
    /\ cumm_energy_per_userid = (<<7>> :> 150)

----------------------------------------------------------------------------
\* The identity event carries a user id.
YieldsId(l) == IsIdentity(l) /\ RE_USERID(l.message).found

\* C16 (SpecTraced): a "Laser shutdown" read with both slots set emits exactly
\* one session (last_userid, start_time, the event's timestamp) and, when the
\* handler returns, both slots are cleared.  Hence, while no identity event is
\* read, nothing more is emitted: a second shutdown right after emits nothing,
\* and neither does a following "Laser started" / "Laser shutdown" pair.
C16_ShutdownEmitsOnceAndClears ==
    [][Reads =>
         /\ ( /\ IsShutdown(LineRead)
              /\ last_userid # None
              /\ start_time # NoTime )
            => /\ emitted' = Append(emitted,
                                    [user_id |-> last_userid,
                                     start_time |-> start_time,
                                     end_time |-> TimeOf(LineRead)])
               /\ pc' = "ingest" => /\ last_userid' = None
                                    /\ start_time' = NoTime
         /\ ( /\ Len(hist) >= 1
              /\ IsShutdown(hist[Len(hist)])
              /\ IsShutdown(LineRead)
              /\ Len(emitted) >= 1
              /\ emitted[Len(emitted)].end_time = TimeOf(hist[Len(hist)])
              /\ last_userid = None )
            => emitted' = emitted
         /\ (last_userid = None /\ ~IsIdentity(LineRead))
            => /\ emitted' = emitted
               /\ last_userid' = None
         /\ ( /\ Len(hist') >= 4
              /\ YieldsId(hist'[1])
              /\ IsStarted(hist'[2])
              /\ IsShutdown(hist'[3])
              /\ \A k \in 4..Len(hist') : ~IsIdentity(hist'[k]) )
            => /\ Len(emitted') = 1
               /\ emitted'[1].end_time = TimeOf(hist'[3])
      ]_vars

\* One session was emitted by the first shutdown, and the start / shutdown
\* pair read after it, with no identity event in between, emitted nothing.
C16_Witness ==
    /\ Len(hist) = 5
    /\ YieldsId(hist[1])
    /\ IsStarted(hist[2])
    /\ IsShutdown(hist[3])
    /\ IsStarted(hist[4])
    /\ IsShutdown(hist[5])
    /\ Len(emitted) = 1
    /\ last_userid = None
    /\ start_time = TimeOf(hist[4])
    /\ pc = "ingest"

----------------------------------------------------------------------------
\* C17 (Spec): an event that is neither an identity event nor a control event
\* with the message "Laser started" or "Laser shutdown" is ignored: the step
\* raises nothing and leaves the slots, the identity map, the aggregates and
\* what was emitted unchanged, also when its message mentions 'laser:mmp' or
\* 'laser:control'.
C17_OtherEventsIgnored ==
    [][( /\ Reads
         /\ IsEvent(LineRead)
         /\ ~IsIdentity(LineRead)
         /\ ~IsStarted(LineRead)
         /\ ~IsShutdown(LineRead) )
       => /\ pc' = "ingest"
          /\ raised' = ""
          /\ UNCHANGED state
      ]_vars

----------------------------------------------------------------------------
\* The three aggregates, the session counter and the printed session lines.
aggregates == <<cumm_time_per_userid, cumm_energy_per_userid, num_sessions,
                total_sessions, sessions>>

\* C18 (Spec): the energy query is made exactly once per emitted session and
\* never otherwise: after every step there are as many queries as emitted
\* sessions, a step makes at most one query, for the interval of the session
\* it emits, and only on a "Laser shutdown" message with both slots set; a
\* discarded shutdown makes none.  The query precedes the update of the
\* aggregates: a query that fails leaves every aggregate and the session
\* counter unchanged, one that answers is followed by the update.
C18_OneQueryPerEmittedSession ==
    [][Reads =>
         /\ Len(queries') = Len(emitted')
         /\ Len(queries') \in {Len(queries), Len(queries) + 1}
         /\ Len(queries') = Len(queries) + 1
            => /\ LineRead.match
               /\ LineRead.message = "Laser shutdown"
               /\ last_userid # None
               /\ start_time # NoTime
               /\ queries'[Len(queries')].start = emitted'[Len(emitted')].start_time
               /\ queries'[Len(queries')].end = emitted'[Len(emitted')].end_time
               /\ IF queries'[Len(queries')].answer.kind = "unreachable"
                  THEN /\ pc' = "raised"
                       /\ raised' = "ConnectionError"
                       /\ UNCHANGED aggregates
                  ELSE /\ pc' = "ingest"
                       /\ total_sessions' = total_sessions + 1
                       /\ Len(sessions') = Len(sessions) + 1
         /\ (IsShutdown(LineRead) /\ (last_userid = None \/ start_time = NoTime))
            => queries' = queries
         /\ Len(queries') = Len(queries) => UNCHANGED aggregates
      ]_vars

\* A first session was recorded; the query for the second session failed and
\* the counter still says one.
C18_Witness ==
    /\ pc = "raised"
    /\ raised = "ConnectionError"
    /\ Len(queries) = 2
    /\ Len(emitted) = 2
    /\ queries[2].answer.kind = "unreachable"
    /\ total_sessions = 1
    /\ Len(sessions) = 1

----------------------------------------------------------------------------
\* The sum of the values of a map with numbers as values.
RECURSIVE SumOf(_)
SumOf(f) ==
    IF DOMAIN f = {}
    THEN 0
    ELSE LET k == CHOOSE x \in DOMAIN f : TRUE
         IN  f[k] + SumOf([x \in DOMAIN f \ {k} |-> f[x]])

\* What C19 says of the aggregates apart from the number of emitted sessions:
\* the three maps have the same keys, every count is at least 1, the counter
\* is the sum of the counts, every key has a non-null name in uid_map, and
\* the summaries count and name exactly the users with a session.
AggregatesConsistent ==
    /\ DOMAIN cumm_time_per_userid = DOMAIN num_sessions
    /\ DOMAIN cumm_energy_per_userid = DOMAIN num_sessions
    /\ \A u \in DOMAIN num_sessions : num_sessions[u] >= 1
    /\ total_sessions = SumOf(num_sessions)
    /\ \A u \in DOMAIN num_sessions :
          /\ u # None
          /\ u \in DOMAIN uid_map
          /\ uid_map[u] # NoName
    /\ found # << >> =>
          /\ found[1].sessions = total_sessions
          /\ found[1].users = Cardinality(DOMAIN num_sessions)
    /\ pc = "done" =>
          /\ Len(summary) = Cardinality(DOMAIN num_sessions)
          /\ \A i \in 1..Len(summary) :
                /\ summary[i].user_id \in DOMAIN num_sessions
                /\ summary[i].name # NoName
                /\ summary[i].sessions >= 1

\* C19 as stated (Spec): the aggregates are consistent and the counter equals
\* the number of sessions emitted so far, in every reachable state.
C19_Original ==
    /\ AggregatesConsistent
    /\ total_sessions = Len(emitted)

\* C19 (Spec): the aggregates are consistent and the counter equals the number
\* of emitted sessions whose energy query returned; it is the number of
\* sessions emitted except in the state left by a failed query, where the
\* session emitted last is not counted.
C19_AggregatesConsistent ==
    /\ AggregatesConsistent
    /\ total_sessions = Len(sessions)
    /\ pc # "raised" => total_sessions = Len(emitted)
    /\ pc = "raised" =>
          \/ total_sessions = Len(emitted)
          \/ /\ raised = "ConnectionError"
             /\ queries[Len(queries)].answer.kind = "unreachable"
             /\ total_sessions = Len(emitted) - 1

\* Two users with one session each, and both summaries printed.
C19_Witness ==
    /\ pc = "done"
    /\ found = <<[sessions |-> 2, users |-> 2]>>
    /\ Len(summary) = 2
    /\ Len(emitted) = 2
    /\ \A u \in DOMAIN num_sessions : num_sessions[u] = 1

----------------------------------------------------------------------------
\* The number of lines of h that satisfy P.
Count(h, P(_)) == Cardinality({i \in 1..Len(h) : P(h[i])})

====
